---- MODULE Spec2Model ----
(***************************************************************************)
(* Realtime exchange gateway of swingbot: the PionexClient of              *)
(* backend/src/index.js (signed REST calls with retry and backoff, the     *)
(* exchange WebSocket with its reconnect logic) and the client hub of the  *)
(* TradingServer in the same file (registry, subscriptions, broadcast,     *)
(* shutdown), and the signal store of the CopyTradingService with its      *)
(* copy-signals routes.                                                    *)
(*                                                                         *)
(* Strings that the code builds by concatenation are sequences of chunks   *)
(* (each chunk a TLA+ string), concatenated with \o.                       *)
(***************************************************************************)
EXTENDS Integers, Sequences, FiniteSets, TLC

\* ------------------------------------------------------------------ bounds
MaxCalls == 2            \* REST calls that may be in progress together
MaxTime == 2             \* the clock runs over 0..MaxTime
MaxSockets == 4          \* exchange sockets created in the stream-only runs
MaxSharedSockets == 2    \* exchange sockets created in the combined runs
MaxRetriesOption == 2    \* options.maxRetries ranges over 0..MaxRetriesOption
MaxReconnectOption == 2  \* options.maxReconnectAttempts ranges over 0..this
MaxClients == 2          \* dashboard clients that connect in a run
MaxCommands == 2         \* command frames sent to the exchange in a run
MaxLogged == 4           \* messages to clients recorded in a recorded run
MaxFrames == 2           \* exchange frames received in a recorded run
MaxGenerations == 102    \* calls of generateCopyTradingSignals in a run
MaxDays == 2             \* days that go by in a run of the copy-trading service

Calls == 1..MaxCalls
Sockets == 1..MaxSockets
Clients == 1..MaxClients

VARIABLES
  \* the options object passed to the constructor and the configuration
  \* fields the constructor sets from it
  options,
  maxRetries, retryDelay, backoffMultiplier, maxReconnectAttempts, reconnectDelay,
  \* the JavaScript runtime: wall clock and the task occupying the event loop
  now, loopOwner,
  \* one record per REST call (an invocation of makeRequest)
  pc,          \* "idle" | "inflight" | "sleeping" | "done" | "failed"
  request,     \* the requestConfig of the call
  attempt,     \* the attempt parameter of executeWithRetry
  sent,        \* the request of the current attempt as it left the interceptor
  delays,      \* the delays passed to sleep() so far
  result,      \* what the caller got: response data or the thrown error
  statuses,    \* history: HTTP status of each attempt (0: no response)
  lastRaw,     \* history: the axios error of the latest failed attempt
  \* the exchange stream
  sockets,     \* readyState of every WebSocket created so far
  ws,          \* this.ws: 0 for null, else a socket
  wsReconnectAttempts,
  reconnectTimers,   \* pending setTimeout callbacks of handleWebSocketReconnect
  closesSinceOpen,   \* history: close events since the latest open event
  lastClose,         \* history: what the latest close event scheduled
  wsOut,             \* the frames sent on every exchange socket
  \* the client hub of the TradingServer
  wsClients,         \* this.wsClients: the registry
  clientState,       \* readyState of every client socket
  subscriptions,     \* ws.subscriptions of every client socket
  \* the latest step
  op,                \* history: the handler or method that ran (a step of a
                     \* REST call counts as makeRequest)
  emitted,           \* history: events it emitted on the PionexClient
  thrown,            \* history: the error it threw to its caller, "" for none
  sentNow,           \* history: the messages it sent to every client socket
  closeCalls,        \* history: <<session, code>> of every ws.close(code) it called
  \* the sessions as their clients see them
  clientId,          \* ws.clientId of every client socket, <<>> before it is set
  recording,         \* whether this run records what the clients receive
  inbox,             \* history: every message sent to a client socket, in order
  received,          \* history: the number of exchange frames handled
  \* the server process and its shutdown
  shutdownPc,        \* "none" | "awaitDb" | "closing" | "rejected"
  exitTimer,         \* whether the force-exit setTimeout of shutdown is pending
  processExit,       \* "none" while the process runs, else the code of process.exit
  \* the copy-trading service
  activeSignals,     \* this.activeSignals: symbol -> signal, NoSignal for no entry
  signalHistory,     \* this.signalHistory
  generated,         \* history: the generations that have succeeded
  answer             \* history: the latest answer of the copy-signals routes

configVars == <<options, maxRetries, retryDelay, backoffMultiplier, maxReconnectAttempts, reconnectDelay>>
restVars == <<pc, request, attempt, sent, delays, result, statuses, lastRaw>>
wsVars == <<sockets, ws, wsReconnectAttempts, reconnectTimers, closesSinceOpen, lastClose,
           wsOut>>
serverVars == <<wsClients, clientState, subscriptions>>
stepVars == <<op, emitted, thrown, sentNow, closeCalls>>
logVars == <<recording, inbox, received>>
processVars == <<shutdownPc, exitTimer, processExit>>
signalVars == <<activeSignals, signalHistory, generated, answer>>
vars == <<configVars, now, loopOwner, restVars, wsVars, serverVars, stepVars, clientId, logVars,
          processVars, signalVars>>

\* ------------------------------------------------------- JavaScript helpers
\* a || b on numbers: 0 (and an absent option, also written 0) is falsy
OrDefault(v, d) == IF v = 0 THEN d ELSE v

\* a || b on strings: "" (and an absent property, also written "") is falsy
OrText(a, b) == IF a = "" THEN b ELSE a

RECURSIVE Pow(_, _)
Pow(b, e) == IF e <= 0 THEN 1 ELSE b * Pow(b, e - 1)

\* Number.prototype.toString(36), one digit
Digit36(d) ==
  <<"0", "1", "2", "3", "4", "5", "6", "7", "8", "9", "a", "b", "c", "d", "e", "f", "g", "h",
    "i", "j", "k", "l", "m", "n", "o", "p", "q", "r", "s", "t", "u", "v", "w", "x", "y", "z">>[d + 1]

RECURSIVE toString36(_)
toString36(n) ==
  IF n < 36 THEN <<Digit36(n)>> ELSE toString36(n \div 36) \o <<Digit36(n % 36)>>

Digit(d) == <<"0", "1", "2", "3", "4", "5", "6", "7", "8", "9">>[d + 1]

\* `${n}` for a non-negative integer
RECURSIVE ToDecimal(_)
ToDecimal(n) == IF n < 10 THEN <<Digit(n)>> ELSE ToDecimal(n \div 10) \o <<Digit(n % 10)>>

toUpperCase(m) ==
  CASE m = "get" -> "GET"
    [] m = "post" -> "POST"
    [] m = "delete" -> "DELETE"
    [] m = "btcusdt" -> "BTCUSDT"
    [] m = "ethusdt" -> "ETHUSDT"
    [] OTHER -> m

\* String.prototype.toLowerCase: axios lower-cases config.method before the
\* request interceptors run, the subscribe methods lower-case the symbol
toLowerCase(m) ==
  CASE m = "GET" -> "get"
    [] m = "POST" -> "post"
    [] m = "DELETE" -> "delete"
    [] m = "BTCUSDT" -> "btcusdt"
    [] m = "ETHUSDT" -> "ethusdt"
    [] OTHER -> m

\* ------------------------------------------------------------- credentials
apiKey == "API-KEY"
secretKey == "SECRET-KEY"

\* crypto.createHmac('sha256', key).update(message).digest('hex'), symbolic
Hmac(key, message) == <<"hmac-sha256", key>> \o message

\* ---------------------------------------------------------- REST requests
NoData == ""     \* data = null

\* the requestConfig objects built by the REST API methods; data is the body
\* already in its JSON.stringify form, requiresAuth is "false" or "undefined"
Config(method, url, data, requiresAuth) ==
  [method |-> method, url |-> url, data |-> data, requiresAuth |-> requiresAuth]

getServerTime == Config("GET", "/v1/common/timestamp", NoData, "false")
getExchangeInfo == Config("GET", "/v1/common/symbols", NoData, "false")
getTicker == Config("GET", "/v1/market/ticker", NoData, "false")
getKlines == Config("GET", "/v1/market/klines", NoData, "false")
getAccountInfo == Config("GET", "/v1/account/balances", NoData, "undefined")
getOpenOrders == Config("GET", "/v1/trade/orders", NoData, "undefined")
getOrderHistory == Config("GET", "/v1/trade/orders/history", NoData, "undefined")
placeOrder == Config("POST", "/v1/trade/orders", "{symbol,side,type,quantity}", "undefined")
cancelOrder == Config("DELETE", "/v1/trade/orders/7", "{symbol}", "undefined")
cancelAllOrders(symbol) ==
  Config("DELETE", "/v1/trade/orders", IF symbol = "" THEN "{}" ELSE "{symbol}", "undefined")

PublicRequests == {getServerTime, getExchangeInfo, getTicker, getKlines}
ApiRequests == PublicRequests \cup
  {getAccountInfo, getOpenOrders, getOrderHistory, placeOrder, cancelOrder,
   cancelAllOrders(""), cancelAllOrders("BTCUSDT")}
\* the requests of the runs with several calls in progress
SharedRequests == {getServerTime, placeOrder}

NoRequest == Config("", "", NoData, "false")

generateSignature_counting(method, url, data, timestamp) ==
  Hmac(secretKey,
       <<toUpperCase(method), url>> \o (IF data # NoData THEN <<data>> ELSE <<>>)
         \o ToDecimal(timestamp)
         \o ToDecimal(Cardinality({c \in Calls : pc[c] # "idle"})))

generateSignature(method, url, data, timestamp) ==
  Hmac(secretKey,
       <<toUpperCase(method), url>> \o (IF data # NoData THEN <<data>> ELSE <<>>)
         \o ToDecimal(timestamp))

DefaultHeaders == [h \in {"Content-Type", "User-Agent"} |->
                     IF h = "Content-Type" THEN <<"application/json">>
                                           ELSE <<"TradingSystem/1.0.0">>]
AuthHeaderNames == {"PIONEX-KEY", "PIONEX-SIGNATURE", "PIONEX-TIMESTAMP"}

SignedHeaders(config, timestamp) ==
  [h \in DOMAIN DefaultHeaders \cup AuthHeaderNames |->
     CASE h = "PIONEX-KEY" -> <<apiKey>>
       [] h = "PIONEX-SIGNATURE" ->
            generateSignature(toLowerCase(config.method), config.url, config.data, timestamp)
       [] h = "PIONEX-TIMESTAMP" -> ToDecimal(timestamp)
       [] OTHER -> DefaultHeaders[h]]

\* the request interceptor, run on every httpClient(requestConfig): the
\* headers of the request as sent, with the time of sending
RequestInterceptor_constructionTime(config) ==
  [headers |-> IF config.requiresAuth # "false" THEN SignedHeaders(config, 0)
                                                ELSE DefaultHeaders,
   config |-> config, sentAt |-> now]

RequestInterceptor_optIn(config) ==
  [headers |-> IF config.requiresAuth = "true" THEN SignedHeaders(config, now)
                                               ELSE DefaultHeaders,
   config |-> config, sentAt |-> now]

RequestInterceptor(config) ==
  [headers |-> IF config.requiresAuth # "false" THEN SignedHeaders(config, now)
                                                ELSE DefaultHeaders,
   config |-> config, sentAt |-> now]

NothingSent == [headers |-> <<>>, config |-> NoRequest, sentAt |-> 0]

\* ------------------------------------------------------------ REST errors
NoResponse == [present |-> FALSE, status |-> 0, message |-> "", error |-> ""]
Response(status, message, error) ==
  [present |-> TRUE, status |-> status, message |-> message, error |-> error]

\* what axios rejects with: error.response (status and the data fields
\* message and error), error.request, error.message
AxiosError(response, hasRequest, message) ==
  [response |-> response, request |-> hasRequest, message |-> <<message>>]

ErrorStatuses == {400, 429, 503}
ExchangeBodies == {<<"invalid symbol", "">>, <<"", "E1001">>, <<"", "">>}
HttpErrors == {AxiosError(Response(s, b[1], b[2]), TRUE, "Request failed") :
                 s \in ErrorStatuses, b \in ExchangeBodies}
NetworkError == AxiosError(NoResponse, TRUE, "timeout of 10000ms exceeded")
SetupError == AxiosError(NoResponse, FALSE, "Invalid URL")
AllErrors == HttpErrors \cup {NetworkError, SetupError}
\* the failures of the runs with several calls in progress
SharedErrors == {AxiosError(Response(503, "busy", ""), TRUE, "Request failed")}
NoError == AxiosError(NoResponse, FALSE, "")

\* new Error(message): an object with a message and no response property
Error(message) == [response |-> NoResponse, request |-> FALSE, message |-> message]

handleHttpError_noStatus(error) ==
  IF error.response.present
    THEN Error(<<"Pionex API Error: ">>
               \o <<OrText(error.response.message, OrText(error.response.error, "Unknown error"))>>)
    ELSE IF error.request
      THEN Error(<<"Pionex API Error: No response received from server">>)
      ELSE Error(<<"Pionex API Error: ">> \o error.message)

handleHttpError(error) ==
  IF error.response.present
    THEN Error(<<"Pionex API Error (">> \o ToDecimal(error.response.status) \o <<"): ">>
               \o <<OrText(error.response.message, OrText(error.response.error, "Unknown error"))>>)
    ELSE IF error.request
      THEN Error(<<"Pionex API Error: No response received from server">>)
      ELSE Error(<<"Pionex API Error: ">> \o error.message)

isRetryableError(error) ==
  IF ~error.response.present THEN TRUE
  ELSE error.response.status >= 500 \/ error.response.status = 429

BackoffDelay_fromNext(n) == retryDelay * Pow(backoffMultiplier, n)

\* the delay computed by executeWithRetry after failed attempt n
BackoffDelay(n) == retryDelay * Pow(backoffMultiplier, n - 1)

\* ------------------------------------------------------------- event loop
NoTask == 0
\* a callback runs only while the process lives and no other task occupies
\* the single thread
LoopFree(task) ==
  /\ processExit = "none"
  /\ loopOwner = NoTask \/ loopOwner = task

NoneSent == [c \in Clients |-> <<>>]

\* a step of the named handler that emits, throws and sends nothing
Quiet(name) ==
  /\ op' = name
  /\ closeCalls' = {}
  /\ emitted' = <<>>
  /\ thrown' = ""
  /\ sentNow' = NoneSent


\* -------------------------------------------------------------- REST calls
NoResult == [ok |-> FALSE, error |-> Error(<<>>)]
Data == [ok |-> TRUE, error |-> Error(<<>>)]

\* httpClient(requestConfig) called by executeWithRetry(requestFn, n): the
\* request passes the request interceptor and is sent
requestFn(c, config, n) ==
  /\ pc' = [pc EXCEPT ![c] = "inflight"]
  /\ attempt' = [attempt EXCEPT ![c] = n]
  /\ sent' = [sent EXCEPT ![c] = RequestInterceptor(config)]

makeRequest(c, config) ==
  /\ LoopFree(c)
  /\ pc[c] = "idle"
  /\ request' = [request EXCEPT ![c] = config]
  /\ requestFn(c, config, 1)
  /\ Quiet("makeRequest")
  /\ UNCHANGED <<configVars, processVars, signalVars, clientId, logVars, serverVars, now, loopOwner, delays, result, statuses, lastRaw, wsVars>>

\* await requestFn() resolves: return response.data
Resolve(c) ==
  /\ LoopFree(c)
  /\ pc[c] = "inflight"
  /\ pc' = [pc EXCEPT ![c] = "done"]
  /\ result' = [result EXCEPT ![c] = Data]
  /\ statuses' = [statuses EXCEPT ![c] = Append(@, 200)]
  /\ Quiet("makeRequest")
  /\ UNCHANGED <<configVars, processVars, signalVars, clientId, logVars, serverVars, now, loopOwner, request, attempt, sent, delays, lastRaw, wsVars>>

sleep_busyWait(c, ms) ==
  /\ pc' = [pc EXCEPT ![c] = "sleeping"]
  /\ delays' = [delays EXCEPT ![c] = Append(@, ms)]
  /\ loopOwner' = c

\* sleep(ms): a promise resolved by setTimeout; the thread is given back
sleep(c, ms) ==
  /\ pc' = [pc EXCEPT ![c] = "sleeping"]
  /\ delays' = [delays EXCEPT ![c] = Append(@, ms)]
  /\ UNCHANGED loopOwner

Reject_pastLimit(c, raw) ==
  /\ LoopFree(c)
  /\ pc[c] = "inflight"
  /\ statuses' = [statuses EXCEPT ![c] = Append(@, raw.response.status)]
  /\ lastRaw' = [lastRaw EXCEPT ![c] = raw]
  /\ LET error == handleHttpError(raw) IN
       IF attempt[c] > maxRetries
         THEN /\ pc' = [pc EXCEPT ![c] = "failed"]
              /\ result' = [result EXCEPT ![c] = [ok |-> FALSE, error |-> error]]
              /\ UNCHANGED <<delays, loopOwner>>
         ELSE IF isRetryableError(error)
           THEN /\ sleep(c, BackoffDelay(attempt[c]))
                /\ UNCHANGED result
           ELSE /\ pc' = [pc EXCEPT ![c] = "failed"]
                /\ result' = [result EXCEPT ![c] = [ok |-> FALSE, error |-> error]]
                /\ UNCHANGED <<delays, loopOwner>>
  /\ Quiet("makeRequest")
  /\ UNCHANGED <<configVars, processVars, signalVars, clientId, logVars, serverVars, now, request, attempt, sent, wsVars>>

\* await requestFn() rejects with the error of the response interceptor
Reject(c, raw) ==
  /\ LoopFree(c)
  /\ pc[c] = "inflight"
  /\ statuses' = [statuses EXCEPT ![c] = Append(@, raw.response.status)]
  /\ lastRaw' = [lastRaw EXCEPT ![c] = raw]
  /\ LET error == handleHttpError(raw) IN
       IF attempt[c] >= maxRetries
         THEN /\ pc' = [pc EXCEPT ![c] = "failed"]
              /\ result' = [result EXCEPT ![c] = [ok |-> FALSE, error |-> error]]
              /\ UNCHANGED <<delays, loopOwner>>
         ELSE IF isRetryableError(error)
           THEN /\ sleep(c, BackoffDelay(attempt[c]))
                /\ UNCHANGED result
           ELSE /\ pc' = [pc EXCEPT ![c] = "failed"]
                /\ result' = [result EXCEPT ![c] = [ok |-> FALSE, error |-> error]]
                /\ UNCHANGED <<delays, loopOwner>>
  /\ Quiet("makeRequest")
  /\ UNCHANGED <<configVars, processVars, signalVars, clientId, logVars, serverVars, now, request, attempt, sent, wsVars>>

\* the sleep timer fires: return this.executeWithRetry(requestFn, attempt + 1)
Retry(c) ==
  /\ LoopFree(c)
  /\ pc[c] = "sleeping"
  /\ loopOwner' = NoTask
  /\ requestFn(c, request[c], attempt[c] + 1)
  /\ Quiet("makeRequest")
  /\ UNCHANGED <<configVars, processVars, signalVars, clientId, logVars, serverVars, now, request, delays, result, statuses, lastRaw, wsVars>>

\* Date.now() moves on
Tick ==
  /\ now < MaxTime
  /\ now' = now + 1
  /\ UNCHANGED <<configVars, processVars, signalVars, clientId, logVars, serverVars, loopOwner, restVars, wsVars, stepVars>>

\* ---------------------------------------------------------- exchange stream
NumCreated == Cardinality({s \in Sockets : sockets[s] # "NONE"})

connectWebSocket_always(cap) ==
  /\ NumCreated < cap
  /\ sockets' = [sockets EXCEPT ![NumCreated + 1] = "CONNECTING"]
  /\ ws' = NumCreated + 1

\* connectWebSocket(), creating at most cap sockets in a run
connectWebSocket(cap) ==
  IF ws # 0 /\ sockets[ws] = "OPEN"
    THEN UNCHANGED <<sockets, ws>>
    ELSE /\ NumCreated < cap
         /\ sockets' = [sockets EXCEPT ![NumCreated + 1] = "CONNECTING"]
         /\ ws' = NumCreated + 1

ReconnectExhausted_off(attempts) == attempts > maxReconnectAttempts

ReconnectExhausted(attempts) == attempts >= maxReconnectAttempts

ReconnectDelay_before(attempts) == reconnectDelay * (attempts - 1)

\* the delay of the reconnect timer, from the incremented counter
ReconnectDelay(attempts) == reconnectDelay * attempts

handleWebSocketReconnect_countsFirst ==
  IF ReconnectExhausted(wsReconnectAttempts + 1)
    THEN /\ emitted' = <<"wsDisconnected", "wsReconnectFailed">>
         /\ lastClose' = [k |-> closesSinceOpen + 1, scheduled |-> FALSE, failed |-> TRUE,
                          delay |-> 0]
         /\ UNCHANGED <<wsReconnectAttempts, reconnectTimers>>
    ELSE /\ emitted' = <<"wsDisconnected">>
         /\ wsReconnectAttempts' = wsReconnectAttempts + 1
         /\ reconnectTimers' = reconnectTimers + 1
         /\ lastClose' = [k |-> closesSinceOpen + 1, scheduled |-> TRUE, failed |-> FALSE,
                          delay |-> ReconnectDelay(wsReconnectAttempts + 1)]

\* handleWebSocketReconnect(), called by the close handler after it has
\* emitted wsDisconnected
handleWebSocketReconnect ==
  IF ReconnectExhausted(wsReconnectAttempts)
    THEN /\ emitted' = <<"wsDisconnected", "wsReconnectFailed">>
         /\ lastClose' = [k |-> closesSinceOpen + 1, scheduled |-> FALSE, failed |-> TRUE,
                          delay |-> 0]
         /\ UNCHANGED <<wsReconnectAttempts, reconnectTimers>>
    ELSE /\ emitted' = <<"wsDisconnected">>
         /\ wsReconnectAttempts' = wsReconnectAttempts + 1
         /\ reconnectTimers' = reconnectTimers + 1
         /\ lastClose' = [k |-> closesSinceOpen + 1, scheduled |-> TRUE, failed |-> FALSE,
                          delay |-> ReconnectDelay(wsReconnectAttempts + 1)]

ConnectWebSocket(cap) ==
  /\ LoopFree(NoTask)
  /\ connectWebSocket(cap)
  /\ Quiet("connectWebSocket")
  /\ UNCHANGED <<configVars, processVars, signalVars, clientId, logVars, serverVars, now, loopOwner, restVars, wsReconnectAttempts,
                 reconnectTimers, closesSinceOpen, lastClose, wsOut>>

\* the setTimeout callback of handleWebSocketReconnect
ReconnectTimer(cap) ==
  /\ LoopFree(NoTask)
  /\ reconnectTimers > 0
  /\ reconnectTimers' = reconnectTimers - 1
  /\ connectWebSocket(cap)
  /\ Quiet("reconnectTimer")
  /\ UNCHANGED <<configVars, processVars, signalVars, clientId, logVars, serverVars, now, loopOwner, restVars, wsReconnectAttempts,
                 closesSinceOpen, lastClose, wsOut>>

WsOpen_keepsCounter(s) ==
  /\ LoopFree(NoTask)
  /\ sockets[s] = "CONNECTING"
  /\ sockets' = [sockets EXCEPT ![s] = "OPEN"]
  /\ closesSinceOpen' = 0
  /\ op' = "open"
  /\ closeCalls' = {}
  /\ emitted' = <<"wsConnected">>
  /\ thrown' = ""
  /\ sentNow' = NoneSent
  /\ UNCHANGED <<configVars, processVars, signalVars, clientId, logVars, serverVars, now, loopOwner, restVars, ws, wsReconnectAttempts,
                 reconnectTimers, lastClose, wsOut>>

\* ws.on('open')
WsOpen(s) ==
  /\ LoopFree(NoTask)
  /\ sockets[s] = "CONNECTING"
  /\ sockets' = [sockets EXCEPT ![s] = "OPEN"]
  /\ wsReconnectAttempts' = 0
  /\ closesSinceOpen' = 0
  /\ op' = "open"
  /\ closeCalls' = {}
  /\ emitted' = <<"wsConnected">>
  /\ thrown' = ""
  /\ sentNow' = NoneSent
  /\ UNCHANGED <<configVars, processVars, signalVars, clientId, logVars, serverVars, now, loopOwner, restVars, ws, reconnectTimers, lastClose,
                 wsOut>>

\* inbound frames: text that is not JSON, or a JSON object with an event name
\* a frame from the exchange: text that JSON.parse rejects (json = FALSE), the
\* JSON text null, or a JSON object with the fields event, symbol and data
\* (data as its text, <<>> when absent)
Frame(json, null, event, symbol, data) ==
  [json |-> json, null |-> null, event |-> event, symbol |-> symbol, data |-> data]

MalformedFrame == Frame(FALSE, FALSE, "", "", <<>>)

NullFrame == Frame(TRUE, TRUE, "", "", <<>>)

Frames == {MalformedFrame, NullFrame} \cup
  {Frame(TRUE, FALSE, e, "BTCUSDT", <<"payload">>) :
     e \in {"ticker", "kline", "orderUpdate", "balanceUpdate", "trade"}}

\* the frames of the runs with client sessions
HubFrames == {MalformedFrame,
              Frame(TRUE, FALSE, "ticker", "BTCUSDT", <<"payload">>),
              Frame(TRUE, FALSE, "ticker", "ETHUSDT", <<"payload">>),
              Frame(TRUE, FALSE, "kline", "BTCUSDT", <<"payload">>),
              Frame(TRUE, FALSE, "orderUpdate", "", <<"payload">>),
              Frame(TRUE, FALSE, "trade", "BTCUSDT", <<"payload">>)}

\* a message to a client session
Msg(type, channel, symbol, subscription, data, message) ==
  [type |-> type, channel |-> channel, symbol |-> symbol,
   subscription |-> subscription, data |-> data, message |-> message, clientId |-> <<>>]

\* the number of messages recorded so far
NumLogged == Cardinality(UNION {{<<c, i>> : i \in 1..Len(inbox[c])} : c \in Clients})

Record_prepends(sending) ==
  IF recording
    THEN /\ NumLogged + Cardinality({c \in Clients : sending[c] # <<>>}) <= MaxLogged
         /\ inbox' = [c \in Clients |-> sending[c] \o inbox[c]]
    ELSE inbox' = inbox

\* ws.send(...) as the clients see it: in a recorded run the messages of this
\* step are appended to the inboxes, at most MaxLogged messages in a run
Record(sending) ==
  IF recording
    THEN /\ NumLogged + Cardinality({c \in Clients : sending[c] # <<>>}) <= MaxLogged
         /\ inbox' = [c \in Clients |-> inbox[c] \o sending[c]]
    ELSE inbox' = inbox

\* a recorded run handles at most MaxFrames exchange frames
CountFrame ==
  IF recording
    THEN /\ received < MaxFrames
         /\ received' = received + 1
    ELSE received' = received

Subscription_channelOnly(channel, symbol) == <<channel>>

\* `${channel}:${symbol}`
Subscription(channel, symbol) == <<channel, ":", symbol>>

broadcastToSubscribers_anyState(channel, symbol, data) ==
  [c \in Clients |->
     IF /\ c \in wsClients
        /\ subscriptions[c].defined
        /\ Subscription(channel, symbol) \in subscriptions[c].keys
       THEN <<Msg("data", channel, symbol, <<>>, data, <<>>)>>
       ELSE <<>>]

\* TradingServer.broadcastToSubscribers: what each session is sent
broadcastToSubscribers(channel, symbol, data) ==
  [c \in Clients |->
     IF /\ c \in wsClients
        /\ clientState[c] = "OPEN"
        /\ subscriptions[c].defined
        /\ Subscription(channel, symbol) \in subscriptions[c].keys
       THEN <<Msg("data", channel, symbol, <<>>, data, <<>>)>>
       ELSE <<>>]

Listeners_twice(event, message) ==
  CASE event = "ticker" ->
         [c \in Clients |->
            broadcastToSubscribers("ticker", message.symbol, message.data)[c] \o
            broadcastToSubscribers("ticker", message.symbol, message.data)[c]]
    [] event = "kline" -> broadcastToSubscribers("kline", message.symbol, message.data)
    [] event = "orderUpdate" -> broadcastToSubscribers("orders", "all", message.data)
    [] OTHER -> NoneSent

Listeners_forwardsBalance(event, message) ==
  CASE event = "ticker" -> broadcastToSubscribers("ticker", message.symbol, message.data)
    [] event = "kline" -> broadcastToSubscribers("kline", message.symbol, message.data)
    [] event \in {"orderUpdate", "balanceUpdate"} ->
         broadcastToSubscribers("orders", "all", message.data)
    [] OTHER -> NoneSent

\* the listeners TradingServer registers on its PionexClient
Listeners(event, message) ==
  CASE event = "ticker" -> broadcastToSubscribers("ticker", message.symbol, message.data)
    [] event = "kline" -> broadcastToSubscribers("kline", message.symbol, message.data)
    [] event = "orderUpdate" -> broadcastToSubscribers("orders", "all", message.data)
    [] OTHER -> NoneSent

\* handleWebSocketMessage(message): the name of the event emitted
handleWebSocketMessage(message) ==
  IF message.event \in {"ticker", "kline", "orderUpdate", "balanceUpdate"}
    THEN message.event
    ELSE "message"

WsMessage_strict(s, frame) ==
  /\ LoopFree(NoTask)
  /\ sockets[s] = "OPEN"
  /\ op' = "message"
  /\ closeCalls' = {}
  /\ emitted' = IF frame.json /\ ~frame.null
                  THEN <<handleWebSocketMessage(frame)>>
                  ELSE <<"wsError">>
  /\ thrown' = ""
  /\ sentNow' = IF frame.json /\ ~frame.null
                  THEN Listeners(handleWebSocketMessage(frame), frame)
                  ELSE NoneSent
  /\ Record(sentNow')
  /\ CountFrame
  /\ UNCHANGED <<configVars, processVars, signalVars, clientId, recording, serverVars, now, loopOwner, restVars, wsVars>>

\* ws.on('message'): JSON.parse throws on malformed text, and the destructuring
\* in handleWebSocketMessage throws on null; the handler catches both and only
\* logs. The listeners run inside the emit.
WsMessage(s, frame) ==
  /\ LoopFree(NoTask)
  /\ sockets[s] = "OPEN"
  /\ op' = "message"
  /\ closeCalls' = {}
  /\ emitted' = IF frame.json /\ ~frame.null THEN <<handleWebSocketMessage(frame)>> ELSE <<>>
  /\ thrown' = ""
  /\ sentNow' = IF frame.json /\ ~frame.null
                  THEN Listeners(handleWebSocketMessage(frame), frame)
                  ELSE NoneSent
  /\ Record(sentNow')
  /\ CountFrame
  /\ UNCHANGED <<configVars, processVars, signalVars, clientId, recording, serverVars, now, loopOwner, restVars, wsVars>>

WsError_reconnects(s) ==
  /\ LoopFree(NoTask)
  /\ sockets[s] \in {"CONNECTING", "OPEN"}
  /\ sockets' = [sockets EXCEPT ![s] = "CLOSING"]
  /\ handleWebSocketReconnect
  /\ op' = "error"
  /\ closeCalls' = {}
  /\ thrown' = ""
  /\ sentNow' = NoneSent
  /\ UNCHANGED <<configVars, processVars, signalVars, clientId, logVars, serverVars, now, loopOwner, restVars, ws, closesSinceOpen, wsOut>>

\* ws.on('error'): the socket is on its way to closed when 'error' is emitted
WsError(s) ==
  /\ LoopFree(NoTask)
  /\ sockets[s] \in {"CONNECTING", "OPEN"}
  /\ sockets' = [sockets EXCEPT ![s] = "CLOSING"]
  /\ op' = "error"
  /\ closeCalls' = {}
  /\ emitted' = <<"wsError">>
  /\ thrown' = ""
  /\ sentNow' = NoneSent
  /\ UNCHANGED <<configVars, processVars, signalVars, clientId, logVars, serverVars, now, loopOwner, restVars, ws, wsReconnectAttempts,
                 reconnectTimers, closesSinceOpen, lastClose, wsOut>>

\* ws.on('close')
WsClose(s) ==
  /\ LoopFree(NoTask)
  /\ sockets[s] \in {"OPEN", "CLOSING"}
  /\ sockets' = [sockets EXCEPT ![s] = "CLOSED"]
  /\ closesSinceOpen' = closesSinceOpen + 1
  /\ handleWebSocketReconnect
  /\ op' = "close"
  /\ closeCalls' = {}
  /\ thrown' = ""
  /\ sentNow' = NoneSent
  /\ UNCHANGED <<configVars, processVars, signalVars, clientId, logVars, serverVars, now, loopOwner, restVars, ws, wsOut>>

\* ws.close() of the ws library
close(readyState) ==
  IF readyState \in {"CONNECTING", "OPEN"} THEN "CLOSING" ELSE readyState

disconnectWebSocket ==
  /\ LoopFree(NoTask)
  /\ IF ws # 0
       THEN /\ sockets' = [sockets EXCEPT ![ws] = close(@)]
            /\ ws' = 0
       ELSE UNCHANGED <<sockets, ws>>
  /\ Quiet("disconnectWebSocket")
  /\ UNCHANGED <<configVars, processVars, signalVars, clientId, logVars, serverVars, now, loopOwner, restVars, wsReconnectAttempts,
                 reconnectTimers, closesSinceOpen, lastClose, wsOut>>

NotConnected_nullOnly == ws = 0

\* !this.ws || this.ws.readyState !== WebSocket.OPEN
NotConnected == ws = 0 \/ sockets[ws] # "OPEN"

\* the command frame of subscribeToTicker, subscribeToKlines and unsubscribe
Command(method, params) == [method |-> method, params |-> params, id |-> now]

\* the number of frames handed to ws.send so far
NumSent == Cardinality(UNION {{<<s, m>> : m \in wsOut[s]} : s \in Sockets})

\* the guard and the ws.send shared by the three methods; a run sends at most
\* MaxCommands frames
Send(name, message) ==
  /\ LoopFree(NoTask)
  /\ ~NotConnected => NumSent < MaxCommands
  /\ op' = name
  /\ closeCalls' = {}
  /\ emitted' = <<>>
  /\ sentNow' = NoneSent
  /\ IF NotConnected
       THEN /\ thrown' = "WebSocket not connected"
            /\ wsOut' = wsOut
       ELSE /\ thrown' = ""
            /\ wsOut' = [wsOut EXCEPT ![ws] = @ \cup {message}]
  /\ UNCHANGED <<configVars, processVars, signalVars, clientId, logVars, serverVars, now, loopOwner, restVars, sockets, ws,
                 wsReconnectAttempts, reconnectTimers, closesSinceOpen, lastClose>>

subscribeToTicker(symbol) ==
  Send("subscribeToTicker",
       Command("SUBSCRIBE", << <<toLowerCase(symbol), "@ticker">> >>))

subscribeToKlines(symbol, interval) ==
  Send("subscribeToKlines",
       Command("SUBSCRIBE", << <<toLowerCase(symbol), "@kline_", interval>> >>))

\* streams is one stream name or an array of them
unsubscribe(streams) ==
  Send("unsubscribe",
       Command("UNSUBSCRIBE", IF streams.isArray THEN streams.value ELSE <<streams.value>>))

\* the arguments the runs call unsubscribe with
Streams == {[isArray |-> FALSE, value |-> <<"btcusdt", "@ticker">>],
            [isArray |-> TRUE, value |-> << <<"btcusdt", "@ticker">>,
                                            <<"btcusdt", "@kline_", "1M">> >>]}

\* ws.subscriptions: undefined until the first subscribe, then a Set of keys
NoSubscriptions == [defined |-> FALSE, keys |-> {}]

\* ---------------------------------------------------------- client sessions
\* a message from a dashboard client: text that JSON.parse rejects, or an
\* object with type and data = {channel, symbol}
ClientMessage(json, type, channel, symbol) ==
  [json |-> json, type |-> type,
   data |-> [present |-> TRUE, channel |-> channel, symbol |-> symbol]]

\* a JSON object with a type and no data property
NoDataMessage(type) ==
  [json |-> TRUE, type |-> type, data |-> [present |-> FALSE, channel |-> "", symbol |-> ""]]

TypeError_never(message) == FALSE

\* const { channel, symbol } = data, the first statement of handleSubscription
\* and of handleUnsubscription, throws a TypeError when data is undefined
TypeError(message) ==
  message.type \in {"subscribe", "unsubscribe"} /\ ~message.data.present

ClientMessages ==
  {ClientMessage(FALSE, "", "", ""),
   ClientMessage(TRUE, "ping", "", ""),
   ClientMessage(TRUE, "hello", "", "")} \cup
  {ClientMessage(TRUE, type, "ticker", symbol) :
     type \in {"subscribe", "unsubscribe"}, symbol \in {"BTCUSDT", "ETHUSDT"}}

Reply_toAll(c, message) == [d \in Clients |-> <<message>>]

\* one reply to session c, nothing to the others
Reply(c, message) == [NoneSent EXCEPT ![c] = <<message>>]

\* Math.random().toString(36).substr(2): the digits after "0."
RandomStrings == {<<"random", i>> : i \in Clients}

\* wss.on('connection'), random being what Math.random() contributes to the
\* id; the server accepts no connection once shutdown has called server.close
Connection(c, random) ==
  /\ LoopFree(NoTask)
  /\ shutdownPc # "closing"
  /\ clientState[c] = "NONE"
  /\ clientState' = [clientState EXCEPT ![c] = "OPEN"]
  /\ clientId' = [clientId EXCEPT ![c] = toString36(now) \o random]
  /\ wsClients' = wsClients \cup {c}
  /\ op' = "connection"
  /\ closeCalls' = {}
  /\ emitted' = <<>>
  /\ thrown' = ""
  /\ sentNow' = Reply(c, [Msg("connection", "", "", <<>>, <<>>,
                               <<"Connected to Trading System WebSocket">>)
                            EXCEPT !.clientId = clientId'[c]])
  /\ Record(sentNow')
  /\ UNCHANGED <<configVars, processVars, signalVars, recording, received, now, loopOwner, restVars, wsVars,
                 subscriptions>>

handleSubscription_replaces(c, data) ==
  /\ subscriptions' = [subscriptions EXCEPT ![c] =
       [defined |-> TRUE, keys |-> {Subscription(data.channel, data.symbol)}]]
  /\ sentNow' = Reply(c, Msg("subscribed", data.channel, data.symbol,
                              Subscription(data.channel, data.symbol), <<>>, <<>>))

\* TradingServer.handleSubscription
handleSubscription(c, data) ==
  /\ subscriptions' = [subscriptions EXCEPT ![c] =
       [defined |-> TRUE, keys |-> @.keys \cup {Subscription(data.channel, data.symbol)}]]
  /\ sentNow' = Reply(c, Msg("subscribed", data.channel, data.symbol,
                              Subscription(data.channel, data.symbol), <<>>, <<>>))

handleUnsubscription_keeps(c, data) ==
  IF subscriptions[c].defined
    THEN /\ subscriptions' = subscriptions
         /\ sentNow' = Reply(c, Msg("unsubscribed", data.channel, data.symbol,
                                     Subscription(data.channel, data.symbol), <<>>, <<>>))
    ELSE /\ subscriptions' = subscriptions
         /\ sentNow' = NoneSent

handleUnsubscription(c, data) ==
  IF subscriptions[c].defined
    THEN /\ subscriptions' = [subscriptions EXCEPT ![c].keys =
              @ \ {Subscription(data.channel, data.symbol)}]
         /\ sentNow' = Reply(c, Msg("unsubscribed", data.channel, data.symbol,
                                     Subscription(data.channel, data.symbol), <<>>, <<>>))
    ELSE /\ subscriptions' = subscriptions
         /\ sentNow' = NoneSent

ServerHandleWebSocketMessage_silent(c, message) ==
  CASE message.type = "subscribe" -> handleSubscription(c, message.data)
    [] message.type = "unsubscribe" -> handleUnsubscription(c, message.data)
    [] message.type = "ping" ->
         /\ subscriptions' = subscriptions
         /\ sentNow' = Reply(c, Msg("pong", "", "", <<>>, <<>>, <<>>))
    [] OTHER ->
         /\ subscriptions' = subscriptions
         /\ sentNow' = NoneSent

\* TradingServer.handleWebSocketMessage(ws, message)
ServerHandleWebSocketMessage(c, message) ==
  CASE message.type = "subscribe" -> handleSubscription(c, message.data)
    [] message.type = "unsubscribe" -> handleUnsubscription(c, message.data)
    [] message.type = "ping" ->
         /\ subscriptions' = subscriptions
         /\ sentNow' = Reply(c, Msg("pong", "", "", <<>>, <<>>, <<>>))
    [] OTHER ->
         /\ subscriptions' = subscriptions
         /\ sentNow' = Reply(c, Msg("error", "", "", <<>>, <<>>,
                                     <<"Unknown message type: ", message.type>>))

\* ws.on('message') of a session: what JSON.parse or the handler throws is
\* caught and answered with the error message
ClientMessageEvent(c, message) ==
  /\ LoopFree(NoTask)
  /\ clientState[c] = "OPEN"
  /\ IF message.json /\ ~TypeError(message)
       THEN ServerHandleWebSocketMessage(c, message)
       ELSE /\ subscriptions' = subscriptions
            /\ sentNow' = Reply(c, Msg("error", "", "", <<>>, <<>>, <<"Invalid JSON message">>))
  /\ op' = "clientMessage"
  /\ closeCalls' = {}
  /\ emitted' = <<>>
  /\ thrown' = ""
  /\ Record(sentNow')
  /\ UNCHANGED <<configVars, processVars, signalVars, clientId, recording, received, now, loopOwner, restVars, wsVars,
                 wsClients, clientState>>

\* the closing handshake of a session begins: readyState CLOSING, no handler
\* of the server runs
ClientClosing(c) ==
  /\ LoopFree(NoTask)
  /\ clientState[c] = "OPEN"
  /\ clientState' = [clientState EXCEPT ![c] = "CLOSING"]
  /\ Quiet("clientClosing")
  /\ UNCHANGED <<configVars, processVars, signalVars, clientId, logVars, now, loopOwner, restVars, wsVars, wsClients, subscriptions>>

ClientClose_keeps(c) ==
  /\ LoopFree(NoTask)
  /\ clientState[c] \in {"OPEN", "CLOSING"}
  /\ clientState' = [clientState EXCEPT ![c] = "CLOSED"]
  /\ wsClients' = wsClients
  /\ Quiet("clientClose")
  /\ UNCHANGED <<configVars, processVars, signalVars, clientId, logVars, now, loopOwner, restVars, wsVars, subscriptions>>

\* ws.on('close') of a session
ClientClose(c) ==
  /\ LoopFree(NoTask)
  /\ clientState[c] \in {"OPEN", "CLOSING"}
  /\ clientState' = [clientState EXCEPT ![c] = "CLOSED"]
  /\ wsClients' = wsClients \ {c}
  /\ Quiet("clientClose")
  /\ UNCHANGED <<configVars, processVars, signalVars, clientId, logVars, now, loopOwner, restVars, wsVars, subscriptions>>

ClientError_keeps(c) ==
  /\ LoopFree(NoTask)
  /\ clientState[c] \in {"OPEN", "CLOSING"}
  /\ clientState' = [clientState EXCEPT ![c] = "CLOSING"]
  /\ wsClients' = wsClients
  /\ Quiet("clientError")
  /\ UNCHANGED <<configVars, processVars, signalVars, clientId, logVars, now, loopOwner, restVars, wsVars, subscriptions>>

\* ws.on('error') of a session: the socket is on its way to closed
ClientError(c) ==
  /\ LoopFree(NoTask)
  /\ clientState[c] \in {"OPEN", "CLOSING"}
  /\ clientState' = [clientState EXCEPT ![c] = "CLOSING"]
  /\ wsClients' = wsClients \ {c}
  /\ Quiet("clientError")
  /\ UNCHANGED <<configVars, processVars, signalVars, clientId, logVars, now, loopOwner, restVars, wsVars, subscriptions>>

shutdown_keepsExchange ==
  /\ LoopFree(NoTask)
  /\ shutdownPc = "none"
  /\ clientState' = [c \in Clients |->
                       IF c \in wsClients THEN close(clientState[c]) ELSE clientState[c]]
  /\ closeCalls' = {<<c, 1000>> : c \in wsClients}
  /\ UNCHANGED <<sockets, ws>>
  /\ shutdownPc' = "awaitDb"
  /\ op' = "shutdown"
  /\ emitted' = <<>>
  /\ thrown' = ""
  /\ sentNow' = NoneSent
  /\ UNCHANGED <<configVars, exitTimer, processExit, signalVars, clientId, logVars, now,
                 loopOwner, restVars, wsReconnectAttempts, reconnectTimers, closesSinceOpen,
                 lastClose, wsOut, wsClients, subscriptions>>

\* TradingServer.shutdown(signal) up to its await: close(1000, ...) on every
\* registered session, then disconnectWebSocket() of the PionexClient, then
\* dbService.close() is called and awaited. One signal arrives in a run.
shutdown ==
  /\ LoopFree(NoTask)
  /\ shutdownPc = "none"
  /\ clientState' = [c \in Clients |->
                       IF c \in wsClients THEN close(clientState[c]) ELSE clientState[c]]
  /\ closeCalls' = {<<c, 1000>> : c \in wsClients}
  /\ IF ws # 0
       THEN /\ sockets' = [sockets EXCEPT ![ws] = close(@)]
            /\ ws' = 0
       ELSE UNCHANGED <<sockets, ws>>
  /\ shutdownPc' = "awaitDb"
  /\ op' = "shutdown"
  /\ emitted' = <<>>
  /\ thrown' = ""
  /\ sentNow' = NoneSent
  /\ UNCHANGED <<configVars, exitTimer, processExit, signalVars, clientId, logVars, now,
                 loopOwner, restVars, wsReconnectAttempts, reconnectTimers, closesSinceOpen,
                 lastClose, wsOut, wsClients, subscriptions>>

\* the promise of dbService.close() resolves: shutdown goes on, calls
\* server.close(callback) and only now arms the force-exit timer
dbClosed ==
  /\ LoopFree(NoTask)
  /\ shutdownPc = "awaitDb"
  /\ shutdownPc' = "closing"
  /\ exitTimer' = TRUE
  /\ Quiet("dbClosed")
  /\ UNCHANGED <<configVars, processExit, signalVars, clientId, logVars, now,
                 loopOwner, restVars, wsVars, serverVars>>

\* the promise of dbService.close() rejects: shutdown throws at its await,
\* and the unhandledRejection handler of the process only logs
dbCloseRejected ==
  /\ LoopFree(NoTask)
  /\ shutdownPc = "awaitDb"
  /\ shutdownPc' = "rejected"
  /\ Quiet("dbCloseRejected")
  /\ UNCHANGED <<configVars, exitTimer, processExit, signalVars, clientId, logVars,
                 now, loopOwner, restVars, wsVars, serverVars>>

\* the callback of server.close: every connection of the HTTP server has
\* ended; process.exit(0)
serverClosed ==
  /\ LoopFree(NoTask)
  /\ shutdownPc = "closing"
  /\ \A c \in Clients : clientState[c] \in {"NONE", "CLOSED"}
  /\ processExit' = "0"
  /\ Quiet("serverClosed")
  /\ UNCHANGED <<configVars, shutdownPc, exitTimer, signalVars, clientId, logVars,
                 now, loopOwner, restVars, wsVars, serverVars>>

\* the force-exit timer of shutdown fires: process.exit(1)
forceExit ==
  /\ LoopFree(NoTask)
  /\ exitTimer
  /\ processExit' = "1"
  /\ Quiet("forceExit")
  /\ UNCHANGED <<configVars, shutdownPc, exitTimer, signalVars, clientId, logVars,
                 now, loopOwner, restVars, wsVars, serverVars>>

\* ----------------------------------------------------- copy-trading service
HistoryLimit == 100
Day == 86400000

\* the symbols of the coins the analysis ranks
Symbols == {"BTCUSDT", "ETHUSDT"}

\* Map.get of a symbol without an entry, and the null of createTradingSignal
NoSignal == [symbol |-> "", validUntil |-> 0]

\* a coin of getTop5SwingTradingCoins
Coin(symbol, recommendation) == [symbol |-> symbol, recommendation |-> recommendation]

\* the rankings the runs generate signals from
Analyses == {<<>>,
             <<Coin("BTCUSDT", "Buy")>>,
             <<Coin("BTCUSDT", "Strong Buy"), Coin("ETHUSDT", "Hold")>>,
             <<Coin("BTCUSDT", "Hold"), Coin("ETHUSDT", "Buy")>>}

\* createTradingSignal(coin): a signal valid for 24 hours, or null
createTradingSignal(coin) ==
  IF coin.recommendation \notin {"Strong Buy", "Buy"}
    THEN NoSignal
    ELSE [symbol |-> coin.symbol, validUntil |-> now + Day]

\* the answer to an HTTP request: status, and the signal of a 200
NoAnswer == [status |-> 0, signal |-> NoSignal]

slice_oldest(history, n) ==
  IF Len(history) > n THEN SubSeq(history, 1, n) ELSE history

\* Array.prototype.slice(-n): the last n elements
slice(history, n) ==
  IF Len(history) > n THEN SubSeq(history, Len(history) - n + 1, Len(history)) ELSE history

\* generateCopyTradingSignals() after getTop5SwingTradingCoins answered with
\* topCoins. An entry of signalHistory is told apart by the ordinal of its
\* generation, which stands for its timestamp and its signals.
generateCopyTradingSignals(topCoins) ==
  /\ LoopFree(NoTask)
  /\ activeSignals' =
       [symbol \in Symbols |->
          IF \E i \in 1..Len(topCoins) :
               topCoins[i].symbol = symbol /\ createTradingSignal(topCoins[i]) # NoSignal
            THEN [symbol |-> symbol, validUntil |-> now + Day]
            ELSE activeSignals[symbol]]
  /\ generated' = generated + 1
  /\ LET pushed == Append(signalHistory, [generation |-> generated + 1]) IN
       signalHistory' = IF Len(pushed) > HistoryLimit
                          THEN slice(pushed, HistoryLimit)
                          ELSE pushed
  /\ answer' = [status |-> 200, signal |-> NoSignal]
  /\ Quiet("generateCopyTradingSignals")
  /\ UNCHANGED <<configVars, processVars, clientId, logVars, now, loopOwner, restVars, wsVars,
                 serverVars>>

\* getTop5SwingTradingCoins rejects: generateCopyTradingSignals rethrows and
\* POST /api/copy-signals/generate answers 500
generateFails ==
  /\ LoopFree(NoTask)
  /\ answer' = [status |-> 500, signal |-> NoSignal]
  /\ op' = "generateCopyTradingSignals"
  /\ closeCalls' = {}
  /\ emitted' = <<>>
  /\ thrown' = "analysis failed"
  /\ sentNow' = NoneSent
  /\ UNCHANGED <<configVars, processVars, activeSignals, signalHistory, generated, clientId,
                 logVars, now, loopOwner, restVars, wsVars, serverVars>>

\* GET /api/copy-signals: getActiveSignals() deletes the expired entries
getActiveSignals ==
  /\ LoopFree(NoTask)
  /\ activeSignals' = [symbol \in Symbols |->
                         IF activeSignals[symbol].validUntil > now
                           THEN activeSignals[symbol]
                           ELSE NoSignal]
  /\ answer' = [status |-> 200, signal |-> NoSignal]
  /\ Quiet("getActiveSignals")
  /\ UNCHANGED <<configVars, processVars, signalHistory, generated, clientId, logVars, now,
                 loopOwner, restVars, wsVars, serverVars>>

\* getSignalBySymbol(symbol): this.activeSignals.get(symbol.toUpperCase())
getSignalBySymbol(symbol) ==
  IF toUpperCase(symbol) \in Symbols THEN activeSignals[toUpperCase(symbol)] ELSE NoSignal

\* GET /api/copy-signals/:symbol
getCopySignal(symbol) ==
  /\ LoopFree(NoTask)
  /\ answer' = IF getSignalBySymbol(symbol) = NoSignal
                   THEN [status |-> 404, signal |-> NoSignal]
                   ELSE [status |-> 200, signal |-> getSignalBySymbol(symbol)]
  /\ Quiet("getCopySignal")
  /\ UNCHANGED <<configVars, processVars, activeSignals, signalHistory, generated, clientId,
                 logVars, now, loopOwner, restVars, wsVars, serverVars>>

\* a day goes by
dayPasses(days) ==
  /\ now < days * Day
  /\ now' = now + Day
  /\ UNCHANGED <<configVars, processVars, signalVars, clientId, logVars, serverVars, loopOwner,
                 restVars, wsVars, stepVars>>

\* ------------------------------------------------------------ construction
\* options.x: the supplied value, undefined (written 0) when x is absent
Property(option) == IF option.given THEN option.value ELSE 0

\* new PionexClient(apiKey, secretKey, o)
constructor(o) ==
  /\ options = o
  /\ maxRetries = OrDefault(Property(o.maxRetries), 3)
  /\ retryDelay = OrDefault(Property(o.retryDelay), 1000)
  /\ backoffMultiplier = OrDefault(Property(o.backoffMultiplier), 2)
  /\ maxReconnectAttempts = OrDefault(Property(o.maxReconnectAttempts), 5)
  /\ reconnectDelay = OrDefault(Property(o.reconnectDelay), 5000)
  /\ ws = 0
  /\ wsReconnectAttempts = 0

Fresh ==
  /\ now = 0
  /\ loopOwner = NoTask
  /\ pc = [c \in Calls |-> "idle"]
  /\ request = [c \in Calls |-> NoRequest]
  /\ attempt = [c \in Calls |-> 0]
  /\ sent = [c \in Calls |-> NothingSent]
  /\ delays = [c \in Calls |-> <<>>]
  /\ result = [c \in Calls |-> NoResult]
  /\ statuses = [c \in Calls |-> <<>>]
  /\ lastRaw = [c \in Calls |-> NoError]
  /\ sockets = [s \in Sockets |-> "NONE"]
  /\ reconnectTimers = 0
  /\ closesSinceOpen = 0
  /\ lastClose = [k |-> 0, scheduled |-> FALSE, failed |-> FALSE, delay |-> 0]
  /\ wsOut = [s \in Sockets |-> {}]
  /\ wsClients = {}
  /\ clientState = [c \in Clients |-> "NONE"]
  /\ subscriptions = [c \in Clients |-> NoSubscriptions]
  /\ op = "constructor"
  /\ emitted = <<>>
  /\ thrown = ""
  /\ sentNow = NoneSent
  /\ clientId = [c \in Clients |-> <<>>]
  /\ inbox = [c \in Clients |-> <<>>]
  /\ received = 0
  /\ shutdownPc = "none"
  /\ exitTimer = FALSE
  /\ processExit = "none"
  /\ closeCalls = {}
  /\ activeSignals = [symbol \in Symbols |-> NoSignal]
  /\ signalHistory = <<>>
  /\ generated = 0
  /\ answer = NoAnswer

Absent == [given |-> FALSE, value |-> 0]
Supplied(v) == [given |-> TRUE, value |-> v]

\* an options object whose properties are the non-zero arguments: a 0 stands
\* for a property the caller left out
Options(retries, delay, multiplier, reconnects, reconnect) ==
  LET Option(v) == IF v = 0 THEN Absent ELSE Supplied(v) IN
  [maxRetries |-> Option(retries), retryDelay |-> Option(delay),
   backoffMultiplier |-> Option(multiplier),
   maxReconnectAttempts |-> Option(reconnects), reconnectDelay |-> Option(reconnect)]

\* one caller going through the REST API, every option of the retry policy
InitApi ==
  /\ \E r \in 0..MaxRetriesOption, d \in {0, 250}, m \in {0, 3} :
       constructor(Options(r, d, m, 0, 0))
  /\ Fresh
  /\ recording = FALSE

ApiCall == \E config \in ApiRequests : makeRequest(1, config)
ApiResolve == Resolve(1)
ApiReject == \E raw \in AllErrors : Reject(1, raw)
ApiRetry == Retry(1)

NextApi == ApiCall \/ ApiResolve \/ ApiReject \/ ApiRetry \/ Tick

SpecApi == InitApi /\ [][NextApi]_vars

\* the stream alone, every option of the reconnect policy
InitWs ==
  /\ \E n \in 0..MaxReconnectOption, d \in {0, 1000} :
       constructor(Options(0, 0, 0, n, d))
  /\ Fresh
  /\ recording = FALSE

Connect == ConnectWebSocket(MaxSockets)
Reconnect == ReconnectTimer(MaxSockets)
Open == \E s \in Sockets : WsOpen(s)
Message == \E s \in Sockets, frame \in Frames : WsMessage(s, frame)
SocketError == \E s \in Sockets : WsError(s)
Close == \E s \in Sockets : WsClose(s)
Disconnect == disconnectWebSocket

NextWs == Connect \/ Reconnect \/ Open \/ Message \/ SocketError \/ Close \/ Disconnect

SpecWs == InitWs /\ [][NextWs]_vars

\* every way of supplying the options: each one left out, supplied as 0 or
\* supplied as a positive number; then one REST call and the stream
ConfigOptions ==
  [maxRetries : {Absent, Supplied(0), Supplied(2)},
   retryDelay : {Absent, Supplied(0)},
   backoffMultiplier : {Absent, Supplied(0)},
   maxReconnectAttempts : {Absent, Supplied(0), Supplied(1)},
   reconnectDelay : {Absent, Supplied(0), Supplied(1000)}]

InitConfig ==
  /\ \E o \in ConfigOptions : constructor(o)
  /\ Fresh
  /\ recording = FALSE

NextConfig ==
  \/ makeRequest(1, getServerTime)
  \/ Resolve(1)
  \/ Reject(1, NetworkError)
  \/ Retry(1)
  \/ ConnectWebSocket(MaxSharedSockets)
  \/ ReconnectTimer(MaxSharedSockets)
  \/ Open
  \/ Close

SpecConfig == InitConfig /\ [][NextConfig]_vars

\* several REST calls and the stream side by side: two attempts per call,
\* the other options at their defaults
Init ==
  /\ constructor(Options(2, 0, 0, 0, 0))
  /\ Fresh
  /\ recording = FALSE

Call == \E c \in Calls, config \in SharedRequests : makeRequest(c, config)
Succeed == \E c \in Calls : Resolve(c)
Fail == \E c \in Calls, raw \in SharedErrors : Reject(c, raw)
Wake == \E c \in Calls : Retry(c)
SharedConnect == ConnectWebSocket(MaxSharedSockets)
SharedReconnect == ReconnectTimer(MaxSharedSockets)

Next ==
  \/ Call \/ Succeed \/ Fail \/ Wake
  \/ SharedConnect \/ SharedReconnect \/ Open \/ Message \/ SocketError \/ Close \/ Disconnect

Spec == Init /\ [][Next]_vars

\* the stream and its command methods
SubscribeTicker == \E symbol \in {"BTCUSDT"} : subscribeToTicker(symbol)
SubscribeKlines == \E symbol \in {"BTCUSDT"}, interval \in {"1M"} : subscribeToKlines(symbol, interval)
Unsubscribe == \E streams \in Streams : unsubscribe(streams)

NextSub ==
  \/ SharedConnect \/ SharedReconnect \/ Open \/ SocketError \/ Close \/ Disconnect
  \/ SubscribeTicker \/ SubscribeKlines \/ Unsubscribe

SpecSub == Init /\ [][NextSub]_vars

\* the server: client sessions and the exchange stream that feeds them
ClientConnects == \E c \in Clients : Connection(c, <<"random", c>>)
ClientSends == \E c \in Clients, message \in ClientMessages : ClientMessageEvent(c, message)
ClientStartsClosing == \E c \in Clients : ClientClosing(c)
ClientCloses == \E c \in Clients : ClientClose(c)
ClientFails == \E c \in Clients : ClientError(c)
\* initializePionexClient calls connectWebSocket() once
ServerConnect == ConnectWebSocket(1)

HubMessage_interleaved ==
  \E s \in Sockets, frame \in HubFrames, c \in wsClients :
    /\ LoopFree(NoTask)
    /\ sockets[s] = "OPEN"
    /\ frame.json
    /\ op' = "message"
    /\ closeCalls' = {}
    /\ emitted' = <<handleWebSocketMessage(frame)>>
    /\ thrown' = ""
    /\ sentNow' = Listeners(handleWebSocketMessage(frame), frame)
    /\ wsClients' = wsClients \ {c}
    /\ clientState' = [clientState EXCEPT ![c] = "CLOSED"]
    /\ UNCHANGED <<configVars, processVars, signalVars, clientId, logVars, now, loopOwner, restVars, wsVars,
                   subscriptions>>

HubMessage == \E s \in Sockets, frame \in HubFrames : WsMessage(s, frame)
Shutdown == shutdown

NextHub ==
  \/ ClientConnects \/ ClientSends \/ ClientStartsClosing \/ ClientCloses \/ ClientFails
  \/ ServerConnect \/ Open \/ HubMessage \/ Shutdown

SpecHub == Init /\ [][NextHub]_vars

\* the server with what its clients receive recorded: every frame of the
\* exchange is a ticker carrying its number on the stream
InitRecorded ==
  /\ constructor(Options(2, 0, 0, 0, 0))
  /\ Fresh
  /\ recording = TRUE

RecordedMessages ==
  {ClientMessage(TRUE, type, "ticker", symbol) :
     type \in {"subscribe", "unsubscribe"}, symbol \in {"BTCUSDT", "ETHUSDT"}}

RecordedFrames ==
  {Frame(TRUE, FALSE, "ticker", symbol, ToDecimal(received + 1)) :
     symbol \in {"BTCUSDT", "ETHUSDT"}}

RecordedConnects == \E c \in Clients, random \in RandomStrings : Connection(c, random)
RecordedSends == \E c \in Clients, message \in RecordedMessages : ClientMessageEvent(c, message)
RecordedFrame == \E s \in Sockets, frame \in RecordedFrames : WsMessage(s, frame)

NextRecorded ==
  \/ RecordedConnects \/ RecordedSends \/ ClientCloses
  \/ ServerConnect \/ Open \/ RecordedFrame

SpecRecorded == InitRecorded /\ [][NextRecorded]_vars

\* the hub with the order channel: sessions that subscribe to orders:all or
\* send a subscribe or unsubscribe without data, and the account events
OrdersMessages ==
  {ClientMessage(TRUE, "subscribe", "orders", "all"),
   ClientMessage(TRUE, "unsubscribe", "orders", "all"),
   NoDataMessage("subscribe"),
   NoDataMessage("unsubscribe")}

OrdersFrames ==
  {Frame(TRUE, FALSE, "orderUpdate", "", <<"payload">>),
   Frame(TRUE, FALSE, "balanceUpdate", "", <<"payload">>),
   Frame(TRUE, FALSE, "trade", "BTCUSDT", <<"payload">>)}

NextOrders ==
  \/ ClientConnects
  \/ \E c \in Clients, message \in OrdersMessages : ClientMessageEvent(c, message)
  \/ ClientStartsClosing
  \/ ClientCloses
  \/ ServerConnect
  \/ Open
  \/ \E s \in Sockets, frame \in OrdersFrames : WsMessage(s, frame)

SpecOrders == Init /\ [][NextOrders]_vars

\* the server from a shutdown signal to the end of the process
NextShutdown ==
  \/ ClientConnects \/ ClientStartsClosing \/ ClientCloses
  \/ ServerConnect \/ Open \/ Close
  \/ Shutdown \/ dbClosed \/ dbCloseRejected \/ serverClosed \/ forceExit

SpecShutdown == Init /\ [][NextShutdown]_vars

\* the copy-trading service and its routes
NextSignals ==
  \/ /\ generated < MaxGenerations
     /\ \E topCoins \in Analyses : generateCopyTradingSignals(topCoins)
  \/ generateFails
  \/ getActiveSignals
  \/ \E symbol \in {"btcusdt", "ETHUSDT", "NONEXISTENT"} : getCopySignal(symbol)
  \/ dayPasses(MaxDays)

SpecSignals == Init /\ [][NextSignals]_vars


\* ================================================================= claims
IsPrefixAt(seq, part, i) ==
  /\ i + Len(part) - 1 <= Len(seq)
  /\ SubSeq(seq, i, i + Len(part) - 1) = part
Contains(seq, part) == \E i \in 1..Len(seq) : IsPrefixAt(seq, part, i)
EndsWith(seq, part) ==
  Len(part) <= Len(seq) /\ IsPrefixAt(seq, part, Len(seq) - Len(part) + 1)

\* C1: a call whose first attempt returns a 4xx status other than 429 is
\* attempted exactly once: it fails at once and is never retried.
C1_NonRetryableAttemptedOnce ==
  \A c \in Calls :
    (Len(statuses[c]) >= 1 /\ statuses[c][1] \in (400..499) \ {429})
      => (pc[c] = "failed" /\ attempt[c] = 1 /\ Len(statuses[c]) = 1)

\* C2: a call whose every attempt returns HTTP 503 is attempted exactly
\* maxRetries times, the delay awaited before attempt k (k >= 2) is
\* retryDelay * backoffMultiplier^(k-2), and after the last attempt the call
\* has failed with an error.
C2_RetryBound ==
  \A c \in Calls :
    (statuses[c] # <<>> /\ \A i \in 1..Len(statuses[c]) : statuses[c][i] = 503)
      => /\ attempt[c] <= maxRetries
         /\ Len(statuses[c]) <= maxRetries
         /\ (Len(statuses[c]) = maxRetries) <=> (pc[c] = "failed")
         /\ pc[c] = "failed" => (attempt[c] = maxRetries /\ ~result[c].ok
                                  /\ Len(delays[c]) = maxRetries - 1)
         /\ pc[c] # "failed" => pc[c] \in {"sleeping", "inflight"}
         /\ \A k \in 2..(Len(delays[c]) + 1) :
              delays[c][k - 1] = retryDelay * Pow(backoffMultiplier, k - 2)

C2_Witness ==
  /\ pc[1] = "failed"
  /\ statuses[1] = <<503, 503, 503>>
  /\ maxRetries = 3
  /\ delays[1] = <<1000, 2000>>

C4_FreshTimestamp ==
  \A c \in Calls :
    (pc[c] # "idle" /\ request[c].requiresAuth # "false") =>
      /\ sent[c].headers["PIONEX-TIMESTAMP"] = ToDecimal(sent[c].sentAt)
      /\ EndsWith(sent[c].headers["PIONEX-SIGNATURE"],
                  sent[c].headers["PIONEX-TIMESTAMP"])
      /\ pc[c] = "inflight" => sent[c].sentAt <= now

C4_Witness ==
  /\ pc[1] = "inflight"
  /\ attempt[1] = 2
  /\ request[1] = placeOrder
  /\ sent[1].sentAt = 2
  /\ sent[1].headers["PIONEX-TIMESTAMP"] = <<"2">>

C6_AuthHeaders ==
  \A c \in Calls :
    pc[c] # "idle" =>
      IF request[c] \in PublicRequests
        THEN DOMAIN sent[c].headers \cap AuthHeaderNames = {}
        ELSE AuthHeaderNames \subseteq DOMAIN sent[c].headers

C6_Witness ==
  /\ pc[1] = "inflight"
  /\ request[1] = getAccountInfo
  /\ "PIONEX-KEY" \in DOMAIN sent[1].headers

\* C7: while a call is in its backoff sleep, another call can be issued or
\* completed and the open, message and close callbacks of the exchange
\* socket can run.
C7_SleepSuspendsOnlyItsCall ==
  \A c \in Calls :
    pc[c] = "sleeping" =>
      /\ \A d \in Calls \ {c} :
           /\ pc[d] = "idle" => ENABLED makeRequest(d, getServerTime)
           /\ pc[d] = "inflight" => ENABLED Resolve(d)
      /\ \A s \in Sockets :
           /\ sockets[s] = "CONNECTING" => ENABLED WsOpen(s)
           /\ sockets[s] = "OPEN" =>
                /\ ENABLED WsClose(s)
                /\ \A frame \in Frames : ENABLED WsMessage(s, frame)

C7_Witness ==
  /\ pc[1] = "sleeping"
  /\ pc[2] = "inflight"
  /\ \E s \in Sockets : sockets[s] = "OPEN"

\* C8: at every moment at most one exchange socket is connecting or open.
C8_OneSocketInFlight ==
  Cardinality({s \in Sockets : sockets[s] \in {"CONNECTING", "OPEN"}}) <= 1

\* C9: the k-th consecutive close event with no open event in between, for
\* k in 1..maxReconnectAttempts, schedules the reconnect after
\* reconnectDelay * k.
C9_LinearBackoff ==
  lastClose.k \in 1..maxReconnectAttempts =>
    /\ lastClose.scheduled
    /\ lastClose.delay = reconnectDelay * lastClose.k

C9_Witness ==
  /\ lastClose.k = 2
  /\ lastClose.delay = 10000
  /\ reconnectTimers > 0

\* C10 as stated: the maxReconnectAttempts-th consecutive close event emits
\* reconnectFailed and schedules no reconnect.
C10_FailedAtLimit ==
  lastClose.k = maxReconnectAttempts =>
    (lastClose.failed /\ ~lastClose.scheduled)

\* C10 amended: reconnectFailed is emitted, and no reconnect scheduled, by
\* the close event number maxReconnectAttempts + 1 and by every later one
\* without an open event in between; the close events up to number
\* maxReconnectAttempts emit no reconnectFailed.
C10_FailedAfterLimit ==
  /\ lastClose.k > maxReconnectAttempts => (lastClose.failed /\ ~lastClose.scheduled)
  /\ lastClose.k \in 1..maxReconnectAttempts => ~lastClose.failed
  /\ (emitted # <<>> /\ emitted[Len(emitted)] = "wsReconnectFailed")
       => (lastClose.failed /\ closesSinceOpen > maxReconnectAttempts)

C10_Witness ==
  /\ maxReconnectAttempts = 2
  /\ lastClose.k = 3
  /\ lastClose.failed
  /\ emitted = <<"wsDisconnected", "wsReconnectFailed">>


\* C11 as stated: every close event and every error event of the exchange
\* socket emits a disconnected or error event and, below the limit, schedules
\* exactly one reconnect and increments the counter by one.
C11_CloseOrErrorSchedules ==
  [][op' \in {"close", "error"} =>
       /\ emitted' # <<>>
       /\ emitted'[1] \in {"wsDisconnected", "wsError"}
       /\ wsReconnectAttempts < maxReconnectAttempts =>
            /\ reconnectTimers' = reconnectTimers + 1
            /\ wsReconnectAttempts' = wsReconnectAttempts + 1]_vars

\* C11 amended: a close event emits wsDisconnected and, below the limit,
\* schedules exactly one reconnect and increments the counter by one (at the
\* limit it schedules none); an error event emits wsError, schedules nothing
\* and leaves the counter alone, and leaves its socket closing, so that the
\* reconnect is scheduled by the close event that follows.
C11_CloseSchedulesErrorDoesNot ==
  [][/\ op' = "close" =>
          /\ emitted' # <<>>
          /\ emitted'[1] = "wsDisconnected"
          /\ IF wsReconnectAttempts < maxReconnectAttempts
               THEN /\ reconnectTimers' = reconnectTimers + 1
                    /\ wsReconnectAttempts' = wsReconnectAttempts + 1
               ELSE UNCHANGED <<reconnectTimers, wsReconnectAttempts>>
     /\ op' = "error" =>
          /\ emitted' = <<"wsError">>
          /\ UNCHANGED <<reconnectTimers, wsReconnectAttempts>>
          /\ \E s \in Sockets : sockets[s] \in {"CONNECTING", "OPEN"} /\ sockets'[s] = "CLOSING"
    ]_vars

C11_Witness ==
  /\ op = "error"
  /\ emitted = <<"wsError">>
  /\ wsReconnectAttempts < maxReconnectAttempts
  /\ reconnectTimers = 0
  /\ \E s \in Sockets : sockets[s] = "CLOSING"

\* C12: every open event of the exchange socket sets the reconnect counter to
\* 0 and emits wsConnected, and no step other than an open event decreases
\* the counter.
C12_OnlyOpenResets ==
  [][/\ (\E s \in Sockets : sockets[s] = "CONNECTING" /\ sockets'[s] = "OPEN") =>
          /\ wsReconnectAttempts' = 0
          /\ emitted' = <<"wsConnected">>
     /\ wsReconnectAttempts' < wsReconnectAttempts =>
          /\ op' = "open"
          /\ \E s \in Sockets : sockets[s] = "CONNECTING" /\ sockets'[s] = "OPEN"
    ]_vars

C12_Witness ==
  /\ op = "open"
  /\ emitted = <<"wsConnected">>
  /\ wsReconnectAttempts = 0
  /\ lastClose.scheduled
  /\ lastClose.k = 2

\* C14: connectWebSocket() called (directly or by the reconnect timer) while
\* this.ws is open creates no socket, keeps this.ws and every socket as they
\* are, leaves the reconnect counter alone and emits nothing.
C14_ConnectWhileOpenIsNoOp ==
  [][(/\ ws # 0
      /\ sockets[ws] = "OPEN"
      /\ op' \in {"connectWebSocket", "reconnectTimer"}) =>
       /\ UNCHANGED <<sockets, ws, wsReconnectAttempts, closesSinceOpen, wsOut>>
       /\ emitted' = <<>>
       /\ thrown' = ""]_vars

C14_Witness ==
  /\ op = "reconnectTimer"
  /\ ws # 0
  /\ sockets[ws] = "OPEN"
  /\ NumCreated = 2
  /\ sockets[1] = "CLOSED"

\* C16: an inbound exchange frame that is not JSON emits no event, leaves
\* every socket, this.ws and the reconnect counter as they are, and frames
\* that follow on an open socket are still handled.
C16_MalformedFrameDropped ==
  /\ [][(\E s \in Sockets, frame \in Frames : ~frame.json /\ WsMessage(s, frame)) =>
          /\ emitted' = <<>>
          /\ UNCHANGED <<sockets, ws, wsReconnectAttempts, reconnectTimers>>]_vars
  /\ [](\A s \in Sockets : sockets[s] = "OPEN" =>
          \A frame \in Frames : ENABLED WsMessage(s, frame))

C16_Witness ==
  /\ op = "message"
  /\ emitted = <<>>
  /\ ws # 0
  /\ sockets[ws] = "OPEN"

\* C17: every decoded exchange frame is published exactly once: as the event
\* of its name for ticker, kline, orderUpdate and balanceUpdate, as the
\* catch-all event message for any other name; the connection is unaffected.
C17_FramePublishedOnce ==
  [][\A frame \in Frames :
       (frame.json /\ \E s \in Sockets : WsMessage(s, frame)) =>
         /\ Len(emitted') = 1
         /\ frame.event \in {"ticker", "kline", "orderUpdate", "balanceUpdate"}
              => emitted'[1] = frame.event
         /\ frame.event \notin {"ticker", "kline", "orderUpdate", "balanceUpdate"}
              => emitted'[1] = "message"
         /\ thrown' = ""
         /\ UNCHANGED <<sockets, ws, wsReconnectAttempts, reconnectTimers>>]_vars


\* C15: subscribeToTicker, subscribeToKlines and unsubscribe called while
\* this.ws is absent or not open throw 'WebSocket not connected', send nothing
\* and change nothing of the connection; nothing is queued: a frame is handed
\* to a socket only by a call made while that socket is this.ws and open.
C15_FailFast ==
  [][/\ (/\ op' \in {"subscribeToTicker", "subscribeToKlines", "unsubscribe"}
         /\ (ws = 0 \/ sockets[ws] # "OPEN")) =>
          /\ thrown' = "WebSocket not connected"
          /\ emitted' = <<>>
          /\ UNCHANGED wsVars
     /\ wsOut' # wsOut =>
          /\ op' \in {"subscribeToTicker", "subscribeToKlines", "unsubscribe"}
          /\ thrown' = ""
          /\ ws # 0
          /\ sockets[ws] = "OPEN"
          /\ \A s \in Sockets \ {ws} : wsOut'[s] = wsOut[s]
    ]_vars

C15_Witness ==
  /\ op = "subscribeToTicker"
  /\ thrown = "WebSocket not connected"
  /\ ws # 0
  /\ sockets[ws] = "CONNECTING"
  /\ wsOut[1] # {}
  /\ wsOut[ws] = {}


\* C13 as stated: when the exchange socket has just opened, a SUBSCRIBE
\* command for every channel:symbol in the subscription set of a registered
\* session has been sent on an open exchange socket.
C13_SubscribedOnOpen ==
  op = "open" =>
    \A c \in wsClients : \A key \in subscriptions[c].keys :
      \E s \in Sockets :
        /\ sockets[s] = "OPEN"
        /\ \E m \in wsOut[s] :
             /\ m.method = "SUBSCRIBE"
             /\ m.params[1][1] = toLowerCase(key[3])

\* C18: a frame the server broadcasts (ticker and kline under their symbol,
\* orderUpdate under orders:all) is sent as exactly one data message of that
\* channel, symbol and payload to exactly the registered sessions whose socket
\* is open and whose subscription set holds channel:symbol, and to no other.
C18_BroadcastExactlySubscribers ==
  [][\A frame \in HubFrames :
       (/\ frame.json
        /\ frame.event \in {"ticker", "kline", "orderUpdate"}
        /\ \E s \in Sockets : WsMessage(s, frame)) =>
         LET channel == IF frame.event = "orderUpdate" THEN "orders" ELSE frame.event
             symbol == IF frame.event = "orderUpdate" THEN "all" ELSE frame.symbol
         IN /\ {c \in Clients : sentNow'[c] # <<>>} =
                 {c \in wsClients : /\ clientState[c] = "OPEN"
                                    /\ <<channel, ":", symbol>> \in subscriptions[c].keys}
            /\ \A c \in Clients : sentNow'[c] # <<>> =>
                 /\ Len(sentNow'[c]) = 1
                 /\ sentNow'[c][1].type = "data"
                 /\ sentNow'[c][1].channel = channel
                 /\ sentNow'[c][1].symbol = symbol
                 /\ sentNow'[c][1].data = frame.data]_vars

C18_Witness ==
  /\ op = "message"
  /\ emitted = <<"ticker">>
  /\ \E a, b \in wsClients :
       /\ Len(sentNow[a]) = 1
       /\ sentNow[a][1].symbol = "BTCUSDT"
       /\ clientState[b] = "CLOSING"
       /\ <<"ticker", ":", "BTCUSDT">> \in subscriptions[b].keys
       /\ sentNow[b] = <<>>

\* C19: an unsubscribe of a session removes channel:symbol from its
\* subscription set, the key comes back only by a subscribe of that session
\* for that key, and a data message for a key is sent only to sessions whose
\* set holds the key: between the two no broadcast of the key reaches it.
C19_NoDeliveryAfterUnsubscribe ==
  [][/\ \A c \in Clients, message \in ClientMessages :
          (/\ message.json
           /\ message.type = "unsubscribe"
           /\ ClientMessageEvent(c, message)) =>
            <<message.data.channel, ":", message.data.symbol>> \notin subscriptions'[c].keys
     /\ \A c \in Clients : \A key \in subscriptions'[c].keys \ subscriptions[c].keys :
          \E message \in ClientMessages :
            /\ message.json
            /\ message.type = "subscribe"
            /\ key = <<message.data.channel, ":", message.data.symbol>>
            /\ ClientMessageEvent(c, message)
     /\ \A c \in Clients : \A i \in 1..Len(sentNow'[c]) :
          sentNow'[c][i].type = "data" =>
            <<sentNow'[c][i].channel, ":", sentNow'[c][i].symbol>> \in subscriptions[c].keys
    ]_vars

C19_Witness ==
  /\ op = "message"
  /\ emitted = <<"ticker">>
  /\ \E a, b \in wsClients :
       /\ Len(sentNow[a]) = 1
       /\ sentNow[a][1].symbol = "BTCUSDT"
       /\ clientState[b] = "OPEN"
       /\ subscriptions[b] = [defined |-> TRUE, keys |-> {}]
       /\ sentNow[b] = <<>>

\* C20: the close handler and the error handler of a session take it out of
\* the registry, a session enters the registry only when it connects, and a
\* broadcast sends nothing to a session outside the registry and throws
\* nothing; a closed session is never registered.
C20_ClosedSessionPruned ==
  /\ [][/\ \A c \in Clients : (ClientClose(c) \/ ClientError(c)) => c \notin wsClients'
        /\ \A c \in wsClients' \ wsClients : clientState[c] = "NONE"
        /\ op' = "message" =>
             /\ thrown' = ""
             /\ \A c \in Clients \ wsClients : sentNow'[c] = <<>>
       ]_vars
  /\ [](\A c \in Clients : clientState[c] = "CLOSED" => c \notin wsClients)

C20_Witness ==
  /\ op = "message"
  /\ emitted = <<"ticker">>
  /\ \E a \in wsClients, b \in Clients \ wsClients :
       /\ Len(sentNow[a]) = 1
       /\ sentNow[a][1].symbol = "BTCUSDT"
       /\ clientState[b] = "CLOSING"
       /\ <<"ticker", ":", "BTCUSDT">> \in subscriptions[b].keys
       /\ sentNow[b] = <<>>


\* C21 as stated, a socket counting as closed once it is no longer open:
\* every session in the registry has an open socket.
C21_RegistryHoldsOnlyOpen ==
  \A c \in wsClients : clientState[c] = "OPEN"

\* C21 amended: the registry never holds a session whose socket has reached
\* CLOSED; it may hold sessions whose socket is CLOSING (the peer or shutdown
\* began the closing handshake) until their close event is handled.
C21_RegistryNeverHoldsClosed ==
  \A c \in wsClients : clientState[c] \in {"OPEN", "CLOSING"}

C21_Witness ==
  /\ op = "shutdown"
  /\ \E c \in wsClients : clientState[c] = "CLOSING"
  /\ \E c \in Clients : clientState[c] = "CLOSED" /\ c \notin wsClients

\* C23 as stated: every unsubscribe message is answered to its sender with
\* one unsubscribed message for its channel and symbol.
C23_UnsubscribeAcknowledged ==
  [][\A c \in Clients, message \in ClientMessages :
       (/\ message.json
        /\ message.type = "unsubscribe"
        /\ ClientMessageEvent(c, message)) =>
         /\ Len(sentNow'[c]) = 1
         /\ sentNow'[c][1].type = "unsubscribed"
         /\ sentNow'[c][1].channel = message.data.channel
         /\ sentNow'[c][1].symbol = message.data.symbol]_vars

\* C24: an unsubscribe for a key that is not in the sender's subscription set
\* throws nothing, answers with no error message, and leaves the subscription
\* set of every session, the sender's included, the registry and the sockets
\* as they are.
C24_UnsubscribeAbsentKey ==
  [][\A c \in Clients, message \in ClientMessages :
       (/\ message.json
        /\ message.type = "unsubscribe"
        /\ <<message.data.channel, ":", message.data.symbol>> \notin subscriptions[c].keys
        /\ ClientMessageEvent(c, message)) =>
         /\ thrown' = ""
         /\ \A d \in Clients : \A i \in 1..Len(sentNow'[d]) : sentNow'[d][i].type # "error"
         /\ subscriptions' = subscriptions
         /\ UNCHANGED <<wsClients, clientState>>]_vars

C24_Witness ==
  /\ op = "clientMessage"
  /\ sentNow = NoneSent
  /\ \E c, d \in wsClients :
       /\ clientState[c] = "OPEN"
       /\ ~subscriptions[c].defined
       /\ subscriptions[d].keys = {<<"ticker", ":", "BTCUSDT">>, <<"ticker", ":", "ETHUSDT">>}

\* C25: a subscribe message is answered to its sender alone with one
\* subscribed message carrying its channel, symbol and channel:symbol, and it
\* puts the key in the sender's set; the key stays there until the sender
\* unsubscribes from it, and every broadcast of the key made while the key is
\* there and the socket is open sends the session one data message with that
\* channel and symbol.
C25_SubscribeAcknowledgedAndServed ==
  [][/\ \A c \in Clients, message \in ClientMessages :
          (/\ message.json
           /\ message.type = "subscribe"
           /\ ClientMessageEvent(c, message)) =>
            /\ \A d \in Clients \ {c} : sentNow'[d] = <<>>
            /\ Len(sentNow'[c]) = 1
            /\ sentNow'[c][1].type = "subscribed"
            /\ sentNow'[c][1].channel = message.data.channel
            /\ sentNow'[c][1].symbol = message.data.symbol
            /\ sentNow'[c][1].subscription = <<message.data.channel, ":", message.data.symbol>>
            /\ <<message.data.channel, ":", message.data.symbol>> \in subscriptions'[c].keys
     /\ \A c \in Clients : \A key \in subscriptions[c].keys \ subscriptions'[c].keys :
          \E message \in ClientMessages :
            /\ message.type = "unsubscribe"
            /\ key = <<message.data.channel, ":", message.data.symbol>>
            /\ ClientMessageEvent(c, message)
     /\ \A c \in Clients, frame \in HubFrames :
          (/\ frame.json
           /\ frame.event = "ticker"
           /\ clientState[c] = "OPEN"
           /\ <<"ticker", ":", frame.symbol>> \in subscriptions[c].keys
           /\ \E s \in Sockets : WsMessage(s, frame)) =>
            /\ Len(sentNow'[c]) = 1
            /\ sentNow'[c][1].type = "data"
            /\ sentNow'[c][1].channel = "ticker"
            /\ sentNow'[c][1].symbol = frame.symbol
    ]_vars

C25_Witness ==
  /\ op = "message"
  /\ \E c \in wsClients :
       /\ Len(sentNow[c]) = 1
       /\ sentNow[c][1].type = "data"
       /\ sentNow[c][1].symbol = "ETHUSDT"
       /\ subscriptions[c].keys = {<<"ticker", ":", "ETHUSDT">>}

\* C26: a client message that is not JSON, a ping, or a message of an unknown
\* type is answered to its sender alone with exactly one message (the error
\* 'Invalid JSON message', a pong, the error naming the type), and leaves the
\* registry, every socket state and every subscription set as they are.
C26_OtherMessagesAnswered ==
  [][\A c \in Clients, message \in ClientMessages :
       (/\ ~message.json \/ message.type \notin {"subscribe", "unsubscribe"}
        /\ ClientMessageEvent(c, message)) =>
         /\ \A d \in Clients \ {c} : sentNow'[d] = <<>>
         /\ Len(sentNow'[c]) = 1
         /\ ~message.json =>
              /\ sentNow'[c][1].type = "error"
              /\ sentNow'[c][1].message = <<"Invalid JSON message">>
         /\ (message.json /\ message.type = "ping") => sentNow'[c][1].type = "pong"
         /\ (message.json /\ message.type # "ping") =>
              /\ sentNow'[c][1].type = "error"
              /\ sentNow'[c][1].message = <<"Unknown message type: ", message.type>>
         /\ thrown' = ""
         /\ UNCHANGED serverVars]_vars

C26_Witness ==
  /\ op = "clientMessage"
  /\ \E c \in wsClients :
       /\ clientState[c] = "OPEN"
       /\ subscriptions[c].keys # {}
       /\ Len(sentNow[c]) = 1
       /\ sentNow[c][1].type = "error"
       /\ sentNow[c][1].message = <<"Unknown message type: ", "hello">>

\* C30: handlers run one at a time: a step that broadcasts changes neither
\* the registry nor any session and sends only to sessions of that registry,
\* and a step that changes the registry is a connection, close or error
\* handler and sends no data message.
C30_BroadcastSeesWholeRegistry ==
  [][/\ op' = "message" =>
          /\ UNCHANGED serverVars
          /\ \A c \in Clients : sentNow'[c] # <<>> => c \in wsClients
     /\ wsClients' # wsClients =>
          /\ op' \in {"connection", "clientClose", "clientError"}
          /\ \A c \in Clients : \A i \in 1..Len(sentNow'[c]) : sentNow'[c][i].type # "data"
    ]_vars

C30_Witness ==
  /\ op = "message"
  /\ emitted = <<"ticker">>
  /\ \E a \in wsClients, b \in Clients \ wsClients :
       /\ Len(sentNow[a]) = 1
       /\ sentNow[a][1].type = "data"
       /\ clientState[b] = "CLOSED"
       /\ sentNow[a][1].subscription = <<>>
       /\ <<"ticker", ":", sentNow[a][1].symbol>> \in subscriptions[b].keys


\* C22: a subscribe adds its key to the sender's set and changes nothing
\* else of any set, so a subscribe for a key that is already there leaves
\* every subscription set as it was after the first subscribe; and a
\* broadcast sends a session at most one data message.
C22_SubscribeIdempotent ==
  [][/\ \A c \in Clients, message \in RecordedMessages :
          (/\ message.type = "subscribe"
           /\ ClientMessageEvent(c, message)) =>
            /\ subscriptions'[c].keys =
                 subscriptions[c].keys \cup {<<message.data.channel, ":", message.data.symbol>>}
            /\ \A d \in Clients \ {c} : subscriptions'[d] = subscriptions[d]
            /\ <<message.data.channel, ":", message.data.symbol>> \in subscriptions[c].keys
                 => subscriptions' = subscriptions
     /\ \A c \in Clients :
          Cardinality({i \in 1..Len(sentNow'[c]) : sentNow'[c][i].type = "data"}) <= 1
    ]_vars

C22_Witness ==
  \E c \in wsClients :
    /\ Len(inbox[c]) = 4
    /\ inbox[c][2].type = "subscribed"
    /\ inbox[c][3] = inbox[c][2]
    /\ inbox[c][4].type = "data"
    /\ <<inbox[c][4].channel, ":", inbox[c][4].symbol>> = inbox[c][2].subscription
    /\ subscriptions[c].keys = {inbox[c][2].subscription}

\* C27 as stated: the ids of two registered sessions differ, every session
\* that has connected is given an id, and the first message sent to it is
\* the connection message carrying that id.
C27_FreshIdAndWelcome ==
  /\ \A c, d \in wsClients : c # d => clientId[c] # clientId[d]
  /\ \A c \in Clients : clientState[c] # "NONE" =>
       /\ clientId[c] # <<>>
       /\ inbox[c] # <<>>
       /\ inbox[c][1].type = "connection"
       /\ inbox[c][1].clientId = clientId[c]

\* the number of the exchange frame a data message carries
FrameNumber(message) == CHOOSE n \in 0..(received + 1) : ToDecimal(n) = message.data

\* C28: whatever reaches a session is sent by the step that handles the
\* event; a data message is sent only by the step handling its exchange
\* frame, only to a session whose set holds the key at that moment, and once;
\* so no frame is delivered twice or later than the step that handled it.
C28_NoBufferingNoReplay ==
  /\ [][/\ \A c \in Clients : inbox'[c] = inbox[c] \o sentNow'[c]
        /\ \A c \in Clients : \A i \in 1..Len(sentNow'[c]) :
             sentNow'[c][i].type = "data" =>
               /\ op' = "message"
               /\ received' = received + 1
               /\ sentNow'[c][i].data = ToDecimal(received')
               /\ Len(sentNow'[c]) = 1
               /\ clientState[c] = "OPEN"
               /\ <<sentNow'[c][i].channel, ":", sentNow'[c][i].symbol>>
                    \in subscriptions[c].keys
       ]_vars
  /\ [](\A c \in Clients : \A i, j \in 1..Len(inbox[c]) :
          (i # j /\ inbox[c][i].type = "data" /\ inbox[c][j].type = "data")
            => inbox[c][i].data # inbox[c][j].data)

C28_Witness ==
  /\ received = 2
  /\ \E c \in wsClients :
       /\ Len(inbox[c]) = 3
       /\ inbox[c][2].type = "subscribed"
       /\ inbox[c][2].symbol = "BTCUSDT"
       /\ inbox[c][3].type = "data"
       /\ inbox[c][3].data = ToDecimal(2)
  /\ \E d \in wsClients :
       /\ Len(inbox[d]) = 1
       /\ ~subscriptions[d].defined

C34_FlappingNeverFails ==
  [][(op' = "close" /\ closesSinceOpen = 0)
       => /\ wsReconnectAttempts' = 1
          /\ lastClose'.scheduled
          /\ lastClose'.delay = reconnectDelay * 1
          /\ ~lastClose'.failed
          /\ "wsReconnectFailed" \notin {emitted'[i] : i \in 1..Len(emitted')}]_vars

\* the second socket, made by a reconnect, has opened and closed again
C34_Witness ==
  /\ op = "close"
  /\ closesSinceOpen = 1
  /\ sockets[1] = "CLOSED"
  /\ sockets[2] = "CLOSED"
  /\ sockets[3] = "NONE"
  /\ wsReconnectAttempts = 1
  /\ lastClose.scheduled

\* C35: after disconnectWebSocket() (this.ws is null until connectWebSocket
\* is called again) no connection attempt is made: a reconnect timer that
\* fires while the client is disconnected creates no socket.
C35_DisconnectStopsReconnect ==
  [][(ws = 0 /\ op' = "reconnectTimer") => NumCreated' = NumCreated]_vars

\* C36: a call of executeWithRetry makes at least 1 and at most maxRetries
\* attempts, and its first successful attempt ends it: the response data is
\* the result, every earlier attempt failed and was followed by one sleep,
\* and a finished call makes no further attempt and sleeps no more.
C36_AttemptsBounded ==
  [][\A c \in Calls :
       /\ pc'[c] # "idle" => (attempt'[c] >= 1 /\ attempt'[c] <= maxRetries)
       /\ pc'[c] = "done" =>
             /\ result'[c] = Data
             /\ Len(statuses'[c]) = attempt'[c]
             /\ statuses'[c][attempt'[c]] = 200
             /\ \A i \in 1..(attempt'[c] - 1) : statuses'[c][i] # 200
             /\ Len(delays'[c]) = attempt'[c] - 1
       /\ pc[c] \in {"done", "failed"} =>
             /\ pc'[c] = pc[c]
             /\ attempt'[c] = attempt[c]
             /\ sent'[c] = sent[c]
             /\ delays'[c] = delays[c]
             /\ result'[c] = result[c]]_vars

\* a call that succeeded at its second attempt of three allowed
C36_Witness ==
  \E c \in Calls :
    /\ maxRetries = 3
    /\ pc[c] = "done"
    /\ attempt[c] = 2
    /\ Len(delays[c]) = 1
    /\ result[c] = Data

\* C37: every option the caller supplies is the value the client uses, a
\* supplied 0 included; the default is used only for an option left out.
C37_SuppliedValueUsed ==
  [][LET used == [maxRetries |-> maxRetries', retryDelay |-> retryDelay',
                  backoffMultiplier |-> backoffMultiplier',
                  maxReconnectAttempts |-> maxReconnectAttempts',
                  reconnectDelay |-> reconnectDelay']
     IN \A x \in DOMAIN options : options[x].given => used[x] = options[x].value]_vars

\* C31: once a shutdown signal has been handled, the exit of the process is
\* bounded by the force-exit timer whatever the collaborators do: while the
\* shutdown is in progress and the process has not exited, the force-exit
\* timer is pending.
C31_ForceExitPending ==
  (shutdownPc # "none" /\ processExit = "none") => exitTimer

\* C32: the shutdown step calls close with code 1000 on every session of the
\* registry, so that none of them is left open, and closes the exchange
\* socket when there is one, leaving this.ws null.
C32_ShutdownClosesAll ==
  [][op' = "shutdown"
       => /\ closeCalls' = {<<c, 1000>> : c \in wsClients}
          /\ \A c \in wsClients : clientState'[c] \in {"CLOSING", "CLOSED"}
          /\ ws' = 0
          /\ ws # 0 => sockets'[ws] \in {"CLOSING", "CLOSED"}]_vars

\* a shutdown with two registered sessions and an open exchange socket
C32_Witness ==
  /\ op = "shutdown"
  /\ closeCalls = {<<1, 1000>>, <<2, 1000>>}
  /\ clientState[1] = "CLOSING"
  /\ clientState[2] = "CLOSING"
  /\ sockets[1] = "CLOSING"
  /\ wsReconnectAttempts = 0
  /\ closesSinceOpen = 0
  /\ ws = 0

\* C33: GET /api/copy-signals/:symbol answers with a signal only while that
\* signal is active, that is generated and not past its validUntil; a symbol
\* without an active signal is answered 404.
C33_OnlyActiveSignalAnswered ==
  [][op' = "getCopySignal"
       => (answer'.status = 200 => answer'.signal.validUntil > now)]_vars

\* C38: an orderUpdate event is delivered to exactly the registered sessions
\* that are open and subscribed to orders:all, as a data message of that
\* channel; a balanceUpdate event and the message event of an unknown frame
\* are delivered to no session.
C38_AccountEventRouting ==
  [][op' = "message"
       => /\ emitted' = <<"orderUpdate">> =>
                \A c \in Clients :
                  sentNow'[c] =
                    IF /\ c \in wsClients
                       /\ clientState[c] = "OPEN"
                       /\ subscriptions[c].defined
                       /\ Subscription("orders", "all") \in subscriptions[c].keys
                      THEN <<Msg("data", "orders", "all", <<>>, <<"payload">>, <<>>)>>
                      ELSE <<>>
          /\ emitted' \in {<<"balanceUpdate">>, <<"message">>} => sentNow' = NoneSent]_vars

\* an order update reaches the subscribed session and not the other one
C38_Witness ==
  /\ op = "message"
  /\ emitted = <<"orderUpdate">>
  /\ wsClients = {1, 2}
  /\ clientState[1] = "OPEN"
  /\ clientState[2] = "OPEN"
  /\ \E c \in wsClients : sentNow[c] # <<>>
  /\ \E c \in wsClients : sentNow[c] = <<>>

\* C39: a JSON message of type subscribe or unsubscribe without a data field
\* is answered to its sender, and to nobody else, with the error message; no
\* session's subscription set changes, the sender's socket stays open and the
\* sender stays registered.
C39_MissingDataAnswered ==
  [][\A c \in Clients, type \in {"subscribe", "unsubscribe"} :
       ClientMessageEvent(c, NoDataMessage(type))
         => /\ sentNow' = Reply(c, Msg("error", "", "", <<>>, <<>>,
                                         <<"Invalid JSON message">>))
            /\ subscriptions' = subscriptions
            /\ clientState'[c] = "OPEN"
            /\ c \in wsClients']_vars

\* a session subscribed to orders:all got the error and kept its key
C39_Witness ==
  /\ op = "clientMessage"
  /\ \E c \in wsClients :
       /\ sentNow[c] = <<Msg("error", "", "", <<>>, <<>>, <<"Invalid JSON message">>)>>
       /\ clientState[c] = "OPEN"
       /\ subscriptions[c].defined
       /\ subscriptions[c].keys = {Subscription("orders", "all")}

\* C40: signalHistory never holds more than 100 entries: it holds the entries
\* of all successful generations while there are at most 100 of them, and
\* after that exactly those of the 100 latest, oldest first.
C40_HistoryBounded ==
  /\ Len(signalHistory) <= 100
  /\ Len(signalHistory) = IF generated > 100 THEN 100 ELSE generated
  /\ \A i \in 1..Len(signalHistory) :
       signalHistory[i].generation = generated - Len(signalHistory) + i

\* two entries have been dropped
C40_Witness ==
  /\ op = "generateCopyTradingSignals"
  /\ thrown = ""
  /\ generated = 102
  /\ Len(signalHistory) = 100
  /\ signalHistory[1].generation = 3
  /\ signalHistory[100].generation = 102

====
